---- MODULE Spec2Model ----
(***************************************************************************)
(* Construction-site risk analysis: the risk association step, the weather *)
(* summarizer and the per-camera image analyzer (src/src/camera_tool.py,   *)
(* src/src/meteo_tool.py).                                                 *)
(*                                                                         *)
(* Python values are modelled as follows.  A dict is a function from its   *)
(* keys (strings) to its values, so a dict with an optional key is a       *)
(* function whose DOMAIN may or may not hold that key.  A list is a        *)
(* sequence.  None in a slot that otherwise holds a dict is NoneDict; None *)
(* in a slot that otherwise holds a string is the string None, which is    *)
(* also how an f-string prints it.                                         *)
(***************************************************************************)
EXTENDS Integers, Sequences, FiniteSets, TLC

VARIABLES
    \* associate_risks called on its own
    objects,      \* the caller's detection list (mutated in place by the call)
    other,        \* the companion risk-context argument
    objects0,     \* the detection list as it was when the call was made
    returned,     \* the list associate_risks returned
    ar_pc,        \* "call" before the call, "returned" after it
    \* summarize_weather_conditions
    meteo,        \* json.load(f)["weather_infos"]["1374225"]
    hour,         \* the hour argument, None when not given
    summary,      \* the returned text, or the exception raised
    ws_pc,        \* "call" before the call, "returned" or "raised" after it
    \* analyze_camera
    folder,       \* os.listdir(images_folder): the file names in the folder
    metadata,     \* the detection metadata loaded from json_path
    image_paths,  \* the candidate images, in the order they are submitted
    main_pc,      \* where analyze_camera itself is
    task_pc,      \* where each submitted process_image call is
    task_local,   \* the local variables of each process_image call
    events,       \* per image, the external steps performed for it, in order
    future_result,\* per future, the value returned or the exception raised
    collected,    \* the futures as_completed has yielded so far
    results,      \* the results list of line 264
    cam_summary,  \* what analyze_camera returned
    \* the multi-camera orchestrator
    camera_configs,  \* the configured cameras, by name, in configuration order
    analyzer,        \* per configuration, where its analyzer invocation is
    orch_results,    \* the result map: camera name -> summary or placeholder
    orch_recorded,   \* the invocations whose outcome was put in the map
    orch_pc,         \* where the orchestrator is
    \* generate_final_report
    annotated_dir,   \* the files under annotated_images_dir, as (directory, name)
    walk_todo,       \* the directories os.walk has still to yield
    annotated_images,\* the list built at lines 81-86
    report,          \* the document written to rapport_final.md
    report_pc        \* where generate_final_report is

riskVars == <<objects, other, objects0, returned, ar_pc>>

weatherVars == <<meteo, hour, summary, ws_pc>>

cameraVars == <<folder, metadata, image_paths, main_pc, task_pc, task_local,
                events, future_result, collected, results, cam_summary>>

orchVars == <<camera_configs, analyzer, orch_results, orch_recorded, orch_pc>>

reportVars == <<annotated_dir, walk_todo, annotated_images, report, report_pc>>

vars == <<riskVars, weatherVars, cameraVars, orchVars, reportVars>>

-----------------------------------------------------------------------------
(* Bounds of the model *)

MaxObjects == 3

MaxHours == 3

MaxImages == 2

MaxCameras == 3

-----------------------------------------------------------------------------
(* Python values *)

NoneDict == [none |-> TRUE]

None == "None"

EmptyDict == [k \in {} |-> ""]

HasKey(d, k) == k \in DOMAIN d

\* d[k] = v done in place on dict d
SetKey(d, k, v) == [x \in DOMAIN d \cup {k} |-> IF x = k THEN v ELSE d[x]]

\* bool(d) of a dict-or-None value
TruthyDict(d) == d # NoneDict /\ DOMAIN d # {}

\* bool(d.get(k)) of a string-valued key
TruthyKey(d, k) == HasKey(d, k) /\ d[k] # ""

-----------------------------------------------------------------------------
(* associate_risks, camera_tool.py 110-138 *)

\* the else-less loop of lines 134-136 with the person test dropped
associate_risks_all(objs, oth) ==
    IF ~TruthyDict(oth) \/ objs = <<>>
    THEN objs
    ELSE IF HasKey(oth, "category") /\ oth["category"] = "Risque" /\ TruthyKey(oth, "label")
         THEN [i \in DOMAIN objs |-> SetKey(objs[i], "risque", oth["label"])]
         ELSE objs

\* the loop of lines 134-136 run without the category test of line 132
associate_risks_any_category(objs, oth) ==
    IF ~TruthyDict(oth) \/ objs = <<>>
    THEN objs
    ELSE IF TruthyKey(oth, "label")
         THEN [i \in DOMAIN objs |->
                 IF HasKey(objs[i], "label") /\ objs[i]["label"] = "person"
                 THEN SetKey(objs[i], "risque", oth["label"])
                 ELSE objs[i]]
         ELSE objs

\* lines 128-129 returning a fresh empty list instead of the list passed in
associate_risks_drop(objs, oth) ==
    IF ~TruthyDict(oth) \/ objs = <<>>
    THEN <<>>
    ELSE IF HasKey(oth, "category") /\ oth["category"] = "Risque" /\ TruthyKey(oth, "label")
         THEN [i \in DOMAIN objs |->
                 IF HasKey(objs[i], "label") /\ objs[i]["label"] = "person"
                 THEN SetKey(objs[i], "risque", oth["label"])
                 ELSE objs[i]]
         ELSE objs

\* The list after the call: the same list object, its person dicts stamped.
associate_risks(objs, oth) ==
    IF ~TruthyDict(oth) \/ objs = <<>>
    THEN objs
    ELSE IF HasKey(oth, "category") /\ oth["category"] = "Risque" /\ TruthyKey(oth, "label")
         THEN [i \in DOMAIN objs |->
                 IF HasKey(objs[i], "label") /\ objs[i]["label"] = "person"
                 THEN SetKey(objs[i], "risque", oth["label"])
                 ELSE objs[i]]
         ELSE objs

-----------------------------------------------------------------------------
(* Inputs of associate_risks *)

\* Detections as the detector writes them (label, score in percent), with the
\* optional risk label, and one dict that carries no label at all.
Detections ==
    { [label |-> "person", score |-> 90],
      [label |-> "person", score |-> 80, risque |-> "old"],
      [label |-> "helmet", score |-> 70],
      [label |-> "truck", score |-> 60, risque |-> "old"],
      [score |-> 50] }

SeqsUpTo(S, n) == UNION { [1..k -> S] : k \in 0..n }

Others ==
    { NoneDict,
      EmptyDict,
      [category |-> "Risque", label |-> "chute"],
      [category |-> "Risque", label |-> ""],
      [category |-> "Risque"],
      [category |-> "Autre", label |-> "chute"],
      [label |-> "chute"] }

RiskIdle ==
    /\ objects = <<>>
    /\ other = NoneDict
    /\ objects0 = <<>>
    /\ returned = <<>>
    /\ ar_pc = "idle"

WeatherIdle ==
    /\ meteo = EmptyDict
    /\ hour = None
    /\ summary = EmptyDict
    /\ ws_pc = "idle"

CameraIdle ==
    /\ folder = {}
    /\ metadata = EmptyDict
    /\ image_paths = <<>>
    /\ main_pc = "idle"
    /\ task_pc = <<>>
    /\ task_local = <<>>
    /\ events = <<>>
    /\ future_result = <<>>
    /\ collected = {}
    /\ results = <<>>
    /\ cam_summary = EmptyDict

OrchIdle ==
    /\ camera_configs = <<>>
    /\ analyzer = <<>>
    /\ orch_results = EmptyDict
    /\ orch_recorded = {}
    /\ orch_pc = "idle"

ReportIdle ==
    /\ annotated_dir = {}
    /\ walk_todo = <<>>
    /\ annotated_images = <<>>
    /\ report = EmptyDict
    /\ report_pc = "idle"

InitRisk ==
    /\ objects \in SeqsUpTo(Detections, MaxObjects)
    /\ other \in Others
    /\ objects0 = objects
    /\ returned = <<>>
    /\ ar_pc = "call"
    /\ WeatherIdle
    /\ CameraIdle
    /\ OrchIdle
    /\ ReportIdle

\* objects = associate_risks(objects, other): the list is mutated in place and
\* the same list is returned.
AssociateRisks ==
    /\ ar_pc = "call"
    /\ objects' = associate_risks(objects, other)
    /\ returned' = associate_risks(objects, other)
    /\ ar_pc' = "returned"
    /\ UNCHANGED <<other, objects0>>
    /\ UNCHANGED weatherVars
    /\ UNCHANGED cameraVars
    /\ UNCHANGED <<orchVars, reportVars>>

NextRisk == AssociateRisks

SpecRisk == InitRisk /\ [][NextRisk]_vars

-----------------------------------------------------------------------------
(* Claims about associate_risks *)

IsRisque(oth) ==
    HasKey(oth, "category") /\ oth["category"] = "Risque" /\ TruthyKey(oth, "label")

IsPerson(obj) == HasKey(obj, "label") /\ obj["label"] = "person"

\* C1: when other.category is "Risque" and other.label is non-empty, after the
\* call every object labelled "person" has risque = other.label and every
\* other object is exactly as it was before the call.
C1_PersonsStamped ==
    (ar_pc = "returned" /\ IsRisque(other)) =>
        /\ Len(objects) = Len(objects0)
        /\ returned = objects
        /\ \A i \in 1..Len(objects0) :
              IF IsPerson(objects0[i])
              THEN HasKey(objects[i], "risque") /\ objects[i]["risque"] = other["label"]
              ELSE objects[i] = objects0[i]

C1_Witness ==
    /\ ar_pc = "returned"
    /\ IsRisque(other)
    /\ \E i, j \in 1..Len(objects0) :
          /\ IsPerson(objects0[i]) /\ ~HasKey(objects0[i], "risque")
          /\ objects[i]["risque"] = other["label"]
          /\ ~IsPerson(objects0[j]) /\ objects[j] = objects0[j]

\* C2: when other.category is not "Risque", or other.label is empty or absent,
\* no detection gains or changes a risque field and the list passes through
\* unchanged.
C2_OnlyRisqueAugments ==
    (ar_pc = "returned" /\ ~IsRisque(other)) =>
        /\ objects = objects0
        /\ returned = objects0

C2_Witness ==
    /\ ar_pc = "returned"
    /\ TruthyDict(other)
    /\ ~IsRisque(other)
    /\ \E i \in 1..Len(objects0) : IsPerson(objects0[i]) /\ objects[i] = objects0[i]

\* C3: when other is None or an empty mapping, associate_risks returns the
\* same objects: same length, same order, same fields and values.
C3_EmptyOtherUnchanged ==
    (ar_pc = "returned" /\ (other = NoneDict \/ other = EmptyDict)) =>
        /\ Len(returned) = Len(objects0)
        /\ \A i \in 1..Len(objects0) : returned[i] = objects0[i]

C3_Witness ==
    /\ ar_pc = "returned"
    /\ other \in {NoneDict, EmptyDict}
    /\ Len(objects0) >= 2
    /\ \E i \in 1..Len(objects0) : IsPerson(objects0[i])
    /\ returned = objects0

-----------------------------------------------------------------------------
(* summarize_weather_conditions, meteo_tool.py 6-53 *)

Range(list) == { list[i] : i \in 1..Len(list) }

\* list[idx] of Python, idx counted from 0 and from the end when negative
InRange(list, idx) == -Len(list) <= idx /\ idx < Len(list)

PyAt(list, idx) == IF idx < 0 THEN list[Len(list) + idx + 1] ELSE list[idx + 1]

\* list.index(x) of Python: the first position holding x, counted from 0
PyIndex(list, x) == (CHOOSE i \in 1..Len(list) :
                        list[i] = x /\ \A j \in 1..(i - 1) : list[j] # x) - 1

\* line 29 with the default taken as the first hour instead of the last
select_idx_first(hours, h) ==
    IF h = None THEN [ok |-> TRUE, idx |-> 0]
    ELSE IF h \in Range(hours) THEN [ok |-> TRUE, idx |-> PyIndex(hours, h)]
    ELSE [ok |-> FALSE, error |-> "ValueError"]

\* line 29 searching the time array from its end
select_idx_rindex(hours, h) ==
    IF h = None THEN [ok |-> TRUE, idx |-> -1]
    ELSE IF h \in Range(hours)
         THEN [ok |-> TRUE,
               idx |-> (CHOOSE i \in 1..Len(hours) :
                           hours[i] = h /\ \A j \in (i + 1)..Len(hours) : hours[j] # h) - 1]
    ELSE [ok |-> FALSE, error |-> "ValueError"]

\* line 29 falling back to the most recent hour when the hour is not found
select_idx_fallback(hours, h) ==
    IF h = None THEN [ok |-> TRUE, idx |-> -1]
    ELSE IF h \in Range(hours) THEN [ok |-> TRUE, idx |-> PyIndex(hours, h)]
    ELSE [ok |-> TRUE, idx |-> -1]

\* line 29: idx = -1 if hour is None else hours.index(hour), which raises
\* ValueError when the hour is not in the list
select_idx(hours, h) ==
    IF h = None THEN [ok |-> TRUE, idx |-> -1]
    ELSE IF h \in Range(hours) THEN [ok |-> TRUE, idx |-> PyIndex(hours, h)]
    ELSE [ok |-> FALSE, error |-> "ValueError"]

\* source_dict.get(key, [None]) of line 38
get_list(source_dict, key) ==
    IF HasKey(source_dict, key) THEN source_dict[key] ELSE <<None>>

\* lines 37-38
get_val(source_dict, key, idx) == PyAt(get_list(source_dict, key), idx)

ForecastMetrics ==
    {"temperature_2m", "relativehumidity_2m", "windspeed_10m", "precipitation", "cloudcover"}

AqiMetrics == {"european_aqi"}

AirMetrics == {"pm2_5", "ozone"}

Metrics == ForecastMetrics \cup AqiMetrics \cup AirMetrics

\* lines 32-34 and 43-50: the section each metric is read from
SectionOf(doc, m) ==
    IF m \in ForecastMetrics THEN doc["forecast"]["hourly"]
    ELSE IF m \in AqiMetrics THEN doc["airquality.forecast"]["hourly"]
    ELSE doc["airquality"]["hourly"]

\* lines 26-53.  The text is the fixed layout of lines 41-51, so it is modelled
\* by the values printed into its slots: the timestamp and one value a metric.
summarize_weather_conditions(doc, h) ==
    LET hours == doc["forecast"]["hourly"]["time"]
        sel == select_idx(hours, h)
    IN  IF ~sel.ok
        THEN [error |-> sel.error]
        ELSE IF \/ ~InRange(hours, sel.idx)
                \/ \E m \in Metrics : ~InRange(get_list(SectionOf(doc, m), m), sel.idx)
             THEN [error |-> "IndexError"]
             ELSE [k \in {"time"} \cup Metrics |->
                     IF k = "time" THEN PyAt(hours, sel.idx)
                     ELSE get_val(SectionOf(doc, k), k, sel.idx)]

-----------------------------------------------------------------------------
(* Inputs of summarize_weather_conditions *)

Hours == {"2025-06-01T10:00", "2025-06-01T11:00"}

AbsentHour == "2025-06-02T00:00"

\* Two readings a metric, as they print, no reading shared by two metrics.
Readings ==
    [m \in Metrics |->
        CASE m = "temperature_2m" -> <<"21.5", "18.0">>
          [] m = "relativehumidity_2m" -> <<"40", "85">>
          [] m = "windspeed_10m" -> <<"12.3", "45.0">>
          [] m = "precipitation" -> <<"0.0", "2.4">>
          [] m = "cloudcover" -> <<"10", "100">>
          [] m = "european_aqi" -> <<"35", "70">>
          [] m = "pm2_5" -> <<"8.1", "30.2">>
          [] m = "ozone" -> <<"60.0", "120.5">>]

\* A document leaves out no metric, one metric, or all of them.
MissingChoices == {{}} \cup {{m} : m \in Metrics} \cup {Metrics}

\* The hourly mapping of one section: its metrics are time-aligned arrays.
Hourly(keys, missing, rows) ==
    [k \in keys \ missing |-> [i \in 1..Len(rows) |-> Readings[k][rows[i]]]]

Document(time, rows, missing) ==
    [k \in {"forecast", "airquality", "airquality.forecast"} |->
        IF k = "forecast"
        THEN [hourly |-> [x \in {"time"} \cup (ForecastMetrics \ missing) |->
                             IF x = "time" THEN time
                             ELSE [i \in 1..Len(rows) |-> Readings[x][rows[i]]]]]
        ELSE IF k = "airquality"
        THEN [hourly |-> Hourly(AirMetrics, missing, rows)]
        ELSE [hourly |-> Hourly(AqiMetrics, missing, rows)]]

InitWeather ==
    /\ \E n \in 0..MaxHours :
          \E time \in [1..n -> Hours], rows \in [1..n -> {1, 2}], missing \in MissingChoices :
              meteo = Document(time, rows, missing)
    /\ hour \in Hours \cup {AbsentHour, None}
    /\ summary = EmptyDict
    /\ ws_pc = "call"
    /\ RiskIdle
    /\ CameraIdle
    /\ OrchIdle
    /\ ReportIdle

SummarizeReturns ==
    /\ ws_pc = "call"
    /\ ~HasKey(summarize_weather_conditions(meteo, hour), "error")
    /\ summary' = summarize_weather_conditions(meteo, hour)
    /\ ws_pc' = "returned"
    /\ UNCHANGED <<meteo, hour>>
    /\ UNCHANGED riskVars
    /\ UNCHANGED cameraVars
    /\ UNCHANGED <<orchVars, reportVars>>

SummarizeRaises ==
    /\ ws_pc = "call"
    /\ HasKey(summarize_weather_conditions(meteo, hour), "error")
    /\ summary' = summarize_weather_conditions(meteo, hour)
    /\ ws_pc' = "raised"
    /\ UNCHANGED <<meteo, hour>>
    /\ UNCHANGED riskVars
    /\ UNCHANGED cameraVars
    /\ UNCHANGED <<orchVars, reportVars>>

NextWeather == SummarizeReturns \/ SummarizeRaises

SpecWeather == InitWeather /\ [][NextWeather]_vars

-----------------------------------------------------------------------------
(* Claims about summarize_weather_conditions *)

TimeArray == meteo["forecast"]["hourly"]["time"]

Present(m) == HasKey(SectionOf(meteo, m), m)

MetricArray(m) == SectionOf(meteo, m)[m]

\* the first position (from 1) of the time array holding the requested hour
FirstPos == CHOOSE i \in 1..Len(TimeArray) :
                TimeArray[i] = hour /\ \A j \in 1..(i - 1) : TimeArray[j] # hour

\* C4: with no hour argument and a non-empty time array, the call returns a
\* text holding the timestamp of the last entry of the time array and, for
\* every metric, the value at the last index of that metric's array.
C4_DefaultIsLastHour ==
    (ws_pc # "call" /\ hour = None /\ Len(TimeArray) > 0) =>
        /\ ws_pc = "returned"
        /\ summary["time"] = TimeArray[Len(TimeArray)]
        /\ \A m \in Metrics :
              Present(m) => summary[m] = MetricArray(m)[Len(MetricArray(m))]

C4_Witness ==
    /\ ws_pc = "returned"
    /\ hour = None
    /\ Len(TimeArray) = 3
    /\ \A m \in Metrics : Present(m) /\ MetricArray(m)[3] # MetricArray(m)[1]
    /\ TimeArray[3] # TimeArray[1]
    /\ summary["time"] = TimeArray[3]

\* C5: with an explicit hour that is present in the time array, the returned
\* text holds, for every metric, the value at the first index holding that
\* hour, not the value at the last index; when no metric is missing the call
\* does return.
C5_ExplicitHourIndex ==
    (ws_pc # "call" /\ hour # None /\ hour \in Range(TimeArray)) =>
        /\ (\A m \in Metrics : Present(m)) => ws_pc = "returned"
        /\ ws_pc = "returned" =>
              /\ summary["time"] = hour
              /\ \A m \in Metrics : Present(m) => summary[m] = MetricArray(m)[FirstPos]

C5_Witness ==
    /\ ws_pc = "returned"
    /\ hour # None
    /\ hour \in Range(TimeArray)
    /\ Len(TimeArray) = 3
    /\ FirstPos = 1
    /\ TimeArray[2] = hour
    /\ \A m \in Metrics :
          /\ Present(m)
          /\ summary[m] = MetricArray(m)[1]
          /\ summary[m] # MetricArray(m)[2]
          /\ summary[m] # MetricArray(m)[3]

\* C6: a metric missing from its section yields a null placeholder in the
\* summary rather than a failure, for the default last hour and for an
\* explicit hour at any index of the time array.
C6_MissingMetricIsNull ==
    (ws_pc # "call" /\ Len(TimeArray) > 0 /\ (hour = None \/ hour \in Range(TimeArray))) =>
        /\ ws_pc = "returned"
        /\ \A m \in Metrics : ~Present(m) => summary[m] = None

\* C7: with an hour that is not in the time array the call fails with a
\* lookup error and returns no summary; it does not fall back to the most
\* recent hour.
C7_AbsentHourRaises ==
    (ws_pc # "call" /\ hour # None /\ hour \notin Range(TimeArray)) =>
        /\ ws_pc = "raised"
        /\ summary = [error |-> "ValueError"]

C7_Witness ==
    /\ ws_pc = "raised"
    /\ hour = AbsentHour
    /\ Len(TimeArray) = 3
    /\ \A m \in Metrics : Present(m)
    /\ summary = [error |-> "ValueError"]

-----------------------------------------------------------------------------
(* analyze_camera, camera_tool.py 182-272 *)

camera_name == "Camera_Milieu"

\* ThreadPoolExecutor() of line 266 runs min(32, os.cpu_count() + 4) workers, at least 5
DefaultMaxWorkers == 5

\* The file names a folder may hold, in lexicographic (code point) order.
LexOrder == <<"a.jpg", "a.txt", "b.JPG", "c.jpg", "d.jpg", "e.jpg">>

\* filename.lower().endswith(".jpg") of line 223
IsJpg(f) == f \in {"a.jpg", "b.JPG", "c.jpg", "d.jpg", "e.jpg"}

LexPos(f) == CHOOSE i \in 1..Len(LexOrder) : LexOrder[i] = f

RECURSIVE Sorted(_)
\* sorted(...) of line 222
Sorted(S) ==
    IF S = {} THEN <<>>
    ELSE LET least == CHOOSE f \in S : \A g \in S : LexPos(f) <= LexPos(g)
         IN  <<least>> \o Sorted(S \ {least})

\* lines 220-224
candidate_images(files) == Sorted({f \in files : IsJpg(f)})

\* metadata.get("images", {}).get(image_name, {}) of line 228
image_info(md, image_name) ==
    IF HasKey(md, "images") /\ HasKey(md["images"], image_name)
    THEN md["images"][image_name]
    ELSE EmptyDict

\* line 229 written info.get("other", {}): a missing key no longer reads as None
other_info_default_empty(md, image_name) ==
    IF HasKey(image_info(md, image_name), "other")
    THEN image_info(md, image_name)["other"]
    ELSE EmptyDict

\* info.get("other") of line 229: None when the key is missing or null
other_info(md, image_name) ==
    IF HasKey(image_info(md, image_name), "other")
    THEN image_info(md, image_name)["other"]
    ELSE NoneDict

\* info.get("detections", []) of line 235
detections_of(md, image_name) ==
    IF HasKey(image_info(md, image_name), "detections")
    THEN image_info(md, image_name)["detections"]
    ELSE <<>>

\* lines 238-248: one bullet a detection (label, score, risk tag if present),
\* or the fixed sentence when there is none
objects_text_of(objs) ==
    IF objs = <<>>
    THEN <<"Aucun objet detecte.">>
    ELSE [i \in DOMAIN objs |->
            [k \in DOMAIN objs[i] \cap {"label", "score", "risque"} |-> objs[i][k]]]

\* line 232
no_other_line(image_name) == [image |-> image_name, kind |-> "no_other"]

\* line 262
image_block(image_name, text, regulatory_advice) ==
    [image |-> image_name, kind |-> "analysis", text |-> text, advice |-> regulatory_advice]

\* lines 256-258 without the "Analyse initiale" part
regulatory_input_without_analysis(image_name, objects_text, text) ==
    [camera |-> camera_name, image |-> image_name, objets |-> objects_text, analyse |-> None]

\* the string given to regulatory_tool.func at lines 256-258
regulatory_input(image_name, objects_text, text) ==
    [camera |-> camera_name, image |-> image_name, objets |-> objects_text, analyse |-> text]

NoLocals == [objects |-> <<>>, objects_text |-> <<>>, text |-> None, regulatory_advice |-> None]

Tasks == DOMAIN image_paths

Finished(i) == task_pc[i] \in {"done", "failed"}

-----------------------------------------------------------------------------
(* Inputs of analyze_camera *)

\* What the risk-description model may answer, and the regulatory model.
RiskTexts == {"Risque visible.", "Aucun risque visible."}

Advices == {"Article R4323-58."}

Person == [label |-> "person", score |-> 90]

Helmet == [label |-> "helmet", score |-> 70]

Risque == [category |-> "Risque", label |-> "chute"]

\* What the detections file may hold for an image, besides nothing at all:
\* no other key, "other": null, an other object with and without detections,
\* an empty other object.
Entries ==
    { [detections |-> <<Person>>],
      [detections |-> <<Person>>, other |-> NoneDict],
      [detections |-> <<>>, other |-> Risque],
      [detections |-> <<Person, Helmet>>, other |-> Risque],
      [detections |-> <<Person>>, other |-> EmptyDict] }

\* A folder holds the first n image names and a file that is no image.
FolderOf(n) == {"a.txt"} \cup Range(SubSeq(SelectSeq(LexOrder, IsJpg), 1, n))

InitCamera ==
    /\ \E n \in 0..MaxImages : folder = FolderOf(n)
    /\ \E keys \in SUBSET {f \in folder : IsJpg(f)} :
          \E images \in [keys -> Entries] : metadata = [images |-> images]
    /\ image_paths = <<>>
    /\ main_pc = "start"
    /\ task_pc = <<>>
    /\ task_local = <<>>
    /\ events = <<>>
    /\ future_result = <<>>
    /\ collected = {}
    /\ results = <<>>
    /\ cam_summary = EmptyDict
    /\ RiskIdle
    /\ WeatherIdle
    /\ OrchIdle
    /\ ReportIdle

Idle == UNCHANGED riskVars /\ UNCHANGED weatherVars /\ UNCHANGED <<orchVars, reportVars>>

\* lines 219-224 and 264-267: the candidates are listed and one future is
\* submitted for each, in that order
Submit ==
    /\ main_pc = "start"
    /\ image_paths' = candidate_images(folder)
    /\ task_pc' = [i \in DOMAIN candidate_images(folder) |-> "pending"]
    /\ task_local' = [i \in DOMAIN candidate_images(folder) |-> NoLocals]
    /\ events' = [i \in DOMAIN candidate_images(folder) |-> <<>>]
    /\ future_result' = [i \in DOMAIN candidate_images(folder) |-> EmptyDict]
    /\ main_pc' = "collecting"
    /\ UNCHANGED <<folder, metadata, collected, results, cam_summary>>
    /\ Idle

\* a pool worker takes the next work item off the queue (first in, first out)
StartTask(i) ==
    /\ main_pc \in {"collecting", "unwinding"}
    /\ task_pc[i] = "pending"
    /\ \A j \in Tasks : j < i => task_pc[j] # "pending"
    /\ Cardinality({j \in Tasks : task_pc[j] \notin {"pending", "done", "failed"}})
          < DefaultMaxWorkers
    /\ task_pc' = [task_pc EXCEPT ![i] = "lookup"]
    /\ UNCHANGED <<folder, metadata, image_paths, main_pc, task_local, events,
                   future_result, collected, results, cam_summary>>
    /\ Idle

\* lines 227-232, other_info is None: the fixed line is returned
LookupNoOther(i) ==
    /\ task_pc[i] = "lookup"
    /\ other_info(metadata, image_paths[i]) = NoneDict
    /\ task_pc' = [task_pc EXCEPT ![i] = "done"]
    /\ future_result' = [future_result EXCEPT
                            ![i] = [ok |-> TRUE, value |-> no_other_line(image_paths[i])]]
    /\ UNCHANGED <<folder, metadata, image_paths, main_pc, task_local, events,
                   collected, results, cam_summary>>
    /\ Idle

\* lines 227-231, other_info is not None
LookupOther(i) ==
    /\ task_pc[i] = "lookup"
    /\ other_info(metadata, image_paths[i]) # NoneDict
    /\ task_pc' = [task_pc EXCEPT ![i] = "associate"]
    /\ UNCHANGED <<folder, metadata, image_paths, main_pc, task_local, events,
                   future_result, collected, results, cam_summary>>
    /\ Idle

\* lines 234-248: associate_risks works on the list stored in metadata, in place
Associate(i) ==
    /\ task_pc[i] = "associate"
    /\ LET name == image_paths[i]
           objs == associate_risks(detections_of(metadata, name), other_info(metadata, name))
       IN  /\ metadata' =
                 IF HasKey(image_info(metadata, name), "detections")
                 THEN [metadata EXCEPT !["images"][name]["detections"] = objs]
                 ELSE metadata
           /\ task_local' = [task_local EXCEPT
                                ![i] = [objects |-> objs,
                                        objects_text |-> objects_text_of(objs),
                                        text |-> None,
                                        regulatory_advice |-> None]]
    /\ events' = [events EXCEPT ![i] = Append(@, [op |-> "associate_risks"])]
    /\ task_pc' = [task_pc EXCEPT ![i] = "risk_call"]
    /\ UNCHANGED <<folder, image_paths, main_pc, future_result, collected, results,
                   cam_summary>>
    /\ Idle

\* lines 250-253: the risk-description model answers
RiskCall(i) ==
    /\ task_pc[i] = "risk_call"
    /\ \E text \in RiskTexts :
          /\ task_local' = [task_local EXCEPT ![i]["text"] = text]
          /\ events' = [events EXCEPT
                ![i] = Append(@, [op |-> "risk_call",
                                  input |-> [nom_camera |-> camera_name,
                                             objets |-> task_local[i].objects_text],
                                  output |-> text])]
    /\ task_pc' = [task_pc EXCEPT ![i] = "regulatory_call"]
    /\ UNCHANGED <<folder, metadata, image_paths, main_pc, future_result, collected,
                   results, cam_summary>>
    /\ Idle

\* line 252 raises: the exception leaves process_image and is stored in the future
RiskCallFails(i) ==
    /\ task_pc[i] = "risk_call"
    /\ events' = [events EXCEPT
                     ![i] = Append(@, [op |-> "risk_call",
                                       input |-> [nom_camera |-> camera_name,
                                                  objets |-> task_local[i].objects_text]])]
    /\ task_pc' = [task_pc EXCEPT ![i] = "failed"]
    /\ task_local' = [task_local EXCEPT ![i] = NoLocals]
    /\ future_result' = [future_result EXCEPT ![i] = [ok |-> FALSE, error |-> "risk_call"]]
    /\ UNCHANGED <<folder, metadata, image_paths, main_pc, collected, results, cam_summary>>
    /\ Idle

\* line 252 never returns: no timeout is set, the worker stays in the call
RiskCallHangs(i) ==
    /\ task_pc[i] = "risk_call"
    /\ events' = [events EXCEPT
                     ![i] = Append(@, [op |-> "risk_call",
                                       input |-> [nom_camera |-> camera_name,
                                                  objets |-> task_local[i].objects_text]])]
    /\ task_pc' = [task_pc EXCEPT ![i] = "hung"]
    /\ UNCHANGED <<folder, metadata, image_paths, main_pc, task_local, future_result,
                   collected, results, cam_summary>>
    /\ Idle

\* lines 255-258: the regulatory-advice model answers
RegulatoryCall(i) ==
    /\ task_pc[i] = "regulatory_call"
    /\ \E advice \in Advices :
          task_local' = [task_local EXCEPT ![i]["regulatory_advice"] = advice]
    /\ events' = [events EXCEPT
                     ![i] = Append(@, [op |-> "regulatory_call",
                                       input |-> regulatory_input(image_paths[i],
                                                                  task_local[i].objects_text,
                                                                  task_local[i].text)])]
    /\ task_pc' = [task_pc EXCEPT ![i] = "annotate"]
    /\ UNCHANGED <<folder, metadata, image_paths, main_pc, future_result, collected,
                   results, cam_summary>>
    /\ Idle

\* line 256 raises: the exception leaves process_image and is stored in the future
RegulatoryCallFails(i) ==
    /\ task_pc[i] = "regulatory_call"
    /\ events' = [events EXCEPT
                     ![i] = Append(@, [op |-> "regulatory_call",
                                       input |-> regulatory_input(image_paths[i],
                                                                  task_local[i].objects_text,
                                                                  task_local[i].text)])]
    /\ task_pc' = [task_pc EXCEPT ![i] = "failed"]
    /\ task_local' = [task_local EXCEPT ![i] = NoLocals]
    /\ future_result' = [future_result EXCEPT
                            ![i] = [ok |-> FALSE, error |-> "regulatory_call"]]
    /\ UNCHANGED <<folder, metadata, image_paths, main_pc, collected, results, cam_summary>>
    /\ Idle

\* line 256 never returns: no timeout is set, the worker stays in the call
RegulatoryCallHangs(i) ==
    /\ task_pc[i] = "regulatory_call"
    /\ events' = [events EXCEPT
                     ![i] = Append(@, [op |-> "regulatory_call",
                                       input |-> regulatory_input(image_paths[i],
                                                                  task_local[i].objects_text,
                                                                  task_local[i].text)])]
    /\ task_pc' = [task_pc EXCEPT ![i] = "hung"]
    /\ UNCHANGED <<folder, metadata, image_paths, main_pc, task_local, future_result,
                   collected, results, cam_summary>>
    /\ Idle

\* lines 259-262: the image is annotated and the text block returned
Annotate(i) ==
    /\ task_pc[i] = "annotate"
    /\ events' = [events EXCEPT
                     ![i] = Append(@, [op |-> "annotate_image",
                                       input |-> task_local[i].objects])]
    /\ future_result' = [future_result EXCEPT
                            ![i] = [ok |-> TRUE,
                                    value |-> image_block(image_paths[i],
                                                          task_local[i].text,
                                                          task_local[i].regulatory_advice)]]
    /\ task_pc' = [task_pc EXCEPT ![i] = "done"]
    /\ task_local' = [task_local EXCEPT ![i] = NoLocals]
    /\ UNCHANGED <<folder, metadata, image_paths, main_pc, collected, results, cam_summary>>
    /\ Idle

\* lines 268-269: as_completed yields a finished future not yielded before and
\* its result is appended
Collect(i) ==
    /\ main_pc = "collecting"
    /\ i \notin collected
    /\ Finished(i)
    /\ future_result[i].ok
    /\ collected' = collected \cup {i}
    /\ results' = Append(results, future_result[i].value)
    /\ UNCHANGED <<folder, metadata, image_paths, main_pc, task_pc, task_local, events,
                   future_result, cam_summary>>
    /\ Idle

\* line 269: future.result() re-raises the exception of a failed future; it
\* leaves the loop and the with block starts waiting for the pool
CollectRaises(i) ==
    /\ main_pc = "collecting"
    /\ i \notin collected
    /\ Finished(i)
    /\ ~future_result[i].ok
    /\ collected' = collected \cup {i}
    /\ main_pc' = "unwinding"
    /\ UNCHANGED <<folder, metadata, image_paths, task_pc, task_local, events,
                   future_result, results, cam_summary>>
    /\ Idle

\* the loop of lines 268-269 left after the first result, the pool not waited for
Return_without_waiting ==
    /\ main_pc = "collecting"
    /\ collected # {}
    /\ cam_summary' = [camera |-> camera_name, results |-> results]
    /\ main_pc' = "returned"
    /\ UNCHANGED <<folder, metadata, image_paths, task_pc, task_local, events,
                   future_result, collected, results>>
    /\ Idle

\* lines 266-272: every future was yielded, the pool shuts down, the summary is returned
Return ==
    /\ main_pc = "collecting"
    /\ collected = Tasks
    /\ cam_summary' = [camera |-> camera_name, results |-> results]
    /\ main_pc' = "returned"
    /\ UNCHANGED <<folder, metadata, image_paths, task_pc, task_local, events,
                   future_result, collected, results>>
    /\ Idle

\* line 266: the with block's exit waits for every submitted task, then the
\* exception leaves analyze_camera
Raise ==
    /\ main_pc = "unwinding"
    /\ \A i \in Tasks : Finished(i)
    /\ main_pc' = "raised"
    /\ UNCHANGED <<folder, metadata, image_paths, task_pc, task_local, events,
                   future_result, collected, results, cam_summary>>
    /\ Idle

NextCamera ==
    \/ Submit
    \/ \E i \in Tasks : StartTask(i)
    \/ \E i \in Tasks : LookupNoOther(i)
    \/ \E i \in Tasks : LookupOther(i)
    \/ \E i \in Tasks : Associate(i)
    \/ \E i \in Tasks : RiskCall(i)
    \/ \E i \in Tasks : RiskCallFails(i)
    \/ \E i \in Tasks : RiskCallHangs(i)
    \/ \E i \in Tasks : RegulatoryCallHangs(i)
    \/ \E i \in Tasks : RegulatoryCall(i)
    \/ \E i \in Tasks : RegulatoryCallFails(i)
    \/ \E i \in Tasks : Annotate(i)
    \/ \E i \in Tasks : Collect(i)
    \/ \E i \in Tasks : CollectRaises(i)
    \/ Return
    \/ Raise

SpecCamera == InitCamera /\ [][NextCamera]_vars

\* The threads of the pool and the thread of analyze_camera are scheduled by
\* the operating system: a step that can be taken is taken in the end.  A
\* model call in progress ends by answering, by raising, or by hanging.
SpecCameraFair == SpecCamera /\ WF_vars(NextCamera)

-----------------------------------------------------------------------------
(* Claims about analyze_camera *)

\* the image of task i is not a key of the metadata, or its entry has no
\* other object (the key is missing or null)
HasNoOther(i) ==
    \/ ~HasKey(metadata["images"], image_paths[i])
    \/ ~HasKey(metadata["images"][image_paths[i]], "other")
    \/ metadata["images"][image_paths[i]]["other"] = NoneDict

\* C8: for every image that is absent from the metadata or whose entry has no
\* other object, the per-image result is the fixed "no risk detected" line and
\* neither model call nor the annotation step is performed for that image.
C8_NoOtherShortCircuits ==
    \A i \in Tasks :
        HasNoOther(i) =>
            /\ events[i] = <<>>
            /\ task_pc[i] # "failed"
            /\ task_pc[i] = "done" =>
                  future_result[i] = [ok |-> TRUE, value |-> no_other_line(image_paths[i])]

C8_Witness ==
    /\ main_pc = "returned"
    /\ Len(image_paths) = 2
    /\ ~HasKey(metadata["images"], image_paths[1])
    /\ HasKey(metadata["images"], image_paths[2])
    /\ HasNoOther(2)
    /\ \A i \in Tasks : future_result[i] = [ok |-> TRUE, value |-> no_other_line(image_paths[i])]

\* C9: for every interleaving and completion order of the per-image tasks, the
\* per-image text blocks appear in the returned summary in the sorted
\* filename order.
C9_SummaryInSortedOrder ==
    main_pc = "returned" =>
        /\ Len(cam_summary["results"]) = Len(image_paths)
        /\ \A k \in 1..Len(image_paths) : cam_summary["results"][k]["image"] = image_paths[k]

\* C10: when the model calls of one image fail, analyze_camera still returns a
\* summary that holds the result of every image that did not fail and an
\* error line for the image that failed.
C10_FailureIsolated ==
    main_pc \in {"returned", "raised"} =>
        /\ main_pc = "returned"
        /\ \A i \in Tasks :
              \E k \in 1..Len(cam_summary["results"]) :
                  IF future_result[i].ok
                  THEN cam_summary["results"][k] = future_result[i].value
                  ELSE /\ cam_summary["results"][k]["image"] = image_paths[i]
                       /\ cam_summary["results"][k]["kind"] = "error"

OnlyPersonsOfOwnImageStamped(name) ==
    LET old == metadata["images"][name]
        new == metadata'["images"][name]
    IN  \/ new = old
        \/ /\ \E i \in Tasks :
                 image_paths[i] = name /\ task_pc[i] = "associate" /\ task_pc'[i] = "risk_call"
           /\ DOMAIN new = DOMAIN old
           /\ \A k \in DOMAIN old \ {"detections"} : new[k] = old[k]
           /\ HasKey(old, "detections") /\ HasKey(old, "other") /\ IsRisque(old["other"])
           /\ Len(new["detections"]) = Len(old["detections"])
           /\ \A j \in 1..Len(old["detections"]) :
                 \/ new["detections"][j] = old["detections"][j]
                 \/ /\ IsPerson(old["detections"][j])
                    /\ new["detections"][j] =
                          SetKey(old["detections"][j], "risque", old["other"]["label"])

PipelineOps == <<"associate_risks", "risk_call", "regulatory_call", "annotate_image">>

OpsOf(i) == [k \in DOMAIN events[i] |-> events[i][k]["op"]]

SomeCallHangs == \E i \in Tasks : task_pc[i] = "hung"

SomeCallRaises == \E i \in Tasks : task_pc[i] = "failed"

ReturnedOneEntryAnImage ==
    /\ main_pc = "returned"
    /\ Len(cam_summary["results"]) = Len(image_paths)
    /\ \A i \in Tasks :
          \E k \in 1..Len(image_paths) : cam_summary["results"][k]["image"] = image_paths[i]

\* C15: analyze_camera ends only after every submitted per-image task has
\* finished; a task whose model call never returns is never cancelled or
\* timed out, and analyze_camera then never returns; and when every model
\* call returns, analyze_camera eventually returns a summary with one entry
\* for every candidate image.
C15_ReturnsOnlyAfterAllTasks ==
    /\ [](main_pc \in {"returned", "raised"} => \A i \in Tasks : Finished(i))
    /\ [][\A i \in Tasks : task_pc[i] = "hung" => task_pc'[i] = "hung"]_vars
    /\ [](SomeCallHangs => main_pc \notin {"returned", "raised"})
    /\ <>(ReturnedOneEntryAnImage \/ SomeCallHangs \/ SomeCallRaises)

C15_Witness ==
    /\ Len(image_paths) = 2
    /\ task_pc[1] = "hung"
    /\ task_pc[2] = "done"
    /\ collected = {2}
    /\ main_pc = "collecting"

C15_WitnessReturned ==
    /\ ReturnedOneEntryAnImage
    /\ Len(image_paths) = 2
    /\ \A i \in Tasks : Len(events[i]) = 4

-----------------------------------------------------------------------------
(* The multi-camera orchestrator.  Its code is not among the source files;  *)
(* it is modelled from the design: one analyzer invocation a camera is      *)
(* submitted to a worker pool, all are awaited, and a map is built from the *)
(* camera name to its summary, or to an error string naming the camera when *)
(* the analyzer raised.                                                     *)

CameraNames == {"Camera_Milieu", "Camera_Entree", "Camera_Sortie"}

\* the invocations submitted so far
Invocations == DOMAIN analyzer

\* what the map holds for a camera whose analyzer returned
summary_of(name) == [kind |-> "summary", camera |-> name]

\* what the map holds for a camera whose analyzer raised
error_placeholder(name) == [kind |-> "error", camera |-> name]

\* the exception of a failed analyzer is not caught: nothing is recorded for it
record_outcome_skip_errors(map, name, outcome) ==
    IF outcome = "raised" THEN map ELSE SetKey(map, name, summary_of(name))

\* the map after the outcome of one invocation is recorded
record_outcome(map, name, outcome) ==
    IF outcome = "raised"
    THEN SetKey(map, name, error_placeholder(name))
    ELSE SetKey(map, name, summary_of(name))

InitOrchestrator ==
    /\ camera_configs \in SeqsUpTo(CameraNames, MaxCameras)
    /\ analyzer = <<>>
    /\ orch_results = EmptyDict
    /\ orch_recorded = {}
    /\ orch_pc = "start"
    /\ RiskIdle
    /\ WeatherIdle
    /\ CameraIdle
    /\ ReportIdle

OrchFrame ==
    UNCHANGED riskVars /\ UNCHANGED weatherVars /\ UNCHANGED cameraVars /\ UNCHANGED reportVars

\* one analyzer invocation is submitted for every configured camera
OrchSubmit ==
    /\ orch_pc = "start"
    /\ analyzer' = [c \in DOMAIN camera_configs |-> "pending"]
    /\ orch_pc' = "awaiting"
    /\ UNCHANGED <<camera_configs, orch_results, orch_recorded>>
    /\ OrchFrame

\* a pool worker starts an invocation
AnalyzerStarts(c) ==
    /\ orch_pc = "awaiting"
    /\ analyzer[c] = "pending"
    /\ analyzer' = [analyzer EXCEPT ![c] = "running"]
    /\ UNCHANGED <<camera_configs, orch_results, orch_recorded, orch_pc>>
    /\ OrchFrame

\* the analyzer returns its summary text
AnalyzerReturns(c) ==
    /\ analyzer[c] = "running"
    /\ analyzer' = [analyzer EXCEPT ![c] = "returned"]
    /\ UNCHANGED <<camera_configs, orch_results, orch_recorded, orch_pc>>
    /\ OrchFrame

\* the analyzer raises
AnalyzerRaises(c) ==
    /\ analyzer[c] = "running"
    /\ analyzer' = [analyzer EXCEPT ![c] = "raised"]
    /\ UNCHANGED <<camera_configs, orch_results, orch_recorded, orch_pc>>
    /\ OrchFrame

\* the orchestrator takes the outcome of a finished invocation into the map
OrchRecord(c) ==
    /\ orch_pc = "awaiting"
    /\ c \notin orch_recorded
    /\ analyzer[c] \in {"returned", "raised"}
    /\ orch_results' = record_outcome(orch_results, camera_configs[c], analyzer[c])
    /\ orch_recorded' = orch_recorded \cup {c}
    /\ UNCHANGED <<camera_configs, analyzer, orch_pc>>
    /\ OrchFrame

\* every invocation was awaited: the map is complete
OrchFinish ==
    /\ orch_pc = "awaiting"
    /\ orch_recorded = Invocations
    /\ orch_pc' = "done"
    /\ UNCHANGED <<camera_configs, analyzer, orch_results, orch_recorded>>
    /\ OrchFrame

NextOrchestrator ==
    \/ OrchSubmit
    \/ \E c \in Invocations : AnalyzerStarts(c)
    \/ \E c \in Invocations : AnalyzerReturns(c)
    \/ \E c \in Invocations : AnalyzerRaises(c)
    \/ \E c \in Invocations : OrchRecord(c)
    \/ OrchFinish

SpecOrchestrator == InitOrchestrator /\ [][NextOrchestrator]_vars

\* C11: once all analyzer invocations have finished, every configured camera
\* name appears exactly once in the result map, mapped to its summary text or
\* to an error placeholder naming the camera, and an analyzer that raised does
\* not prevent the other cameras from completing and being recorded.
C11_EveryCameraRecorded ==
    orch_pc = "done" =>
        /\ \A c \in Invocations : analyzer[c] \in {"returned", "raised"}
        /\ DOMAIN orch_results = Range(camera_configs)
        /\ \A name \in DOMAIN orch_results :
              \E c \in Invocations :
                  /\ camera_configs[c] = name
                  /\ orch_results[name] =
                        [kind |-> IF analyzer[c] = "raised" THEN "error" ELSE "summary",
                         camera |-> name]

C11_Witness ==
    /\ orch_pc = "done"
    /\ Len(camera_configs) = 3
    /\ Cardinality(Range(camera_configs)) = 3
    /\ analyzer[2] = "raised"
    /\ analyzer[1] = "returned"
    /\ analyzer[3] = "returned"
    /\ orch_results[camera_configs[2]]["kind"] = "error"
    /\ orch_results[camera_configs[1]]["kind"] = "summary"
    /\ orch_results[camera_configs[3]]["kind"] = "summary"

-----------------------------------------------------------------------------
(* generate_final_report, summary.py 55-125 *)

\* annotated_images_dir and the per-camera folders analyze_camera writes under it
TopDir == "../assets/annotated_images"

SubDirs == {"Camera_Milieu", "Camera_Entree"}

\* the file names a directory may hold
DirFiles == {"a.jpg", "b.JPG", "a.txt"}

\* f.lower().endswith(".jpg") of line 84
ends_with_jpg(f) == f \in {"a.jpg", "b.JPG"}

\* os.path.join(root, f) of line 85
path_join(root, f) == <<root, f>>

\* the files of one directory, files of os.walk's (root, _, files)
files_in(tree, root) == {p[2] : p \in {q \in tree : q[1] = root}}

\* the orders in which a directory listing may give the names S
Listings(S) ==
    {seq \in [1..Cardinality(S) -> S] : \A i, j \in 1..Cardinality(S) : i # j => seq[i] # seq[j]}

\* the image link of line 108
image_link(img) == [kind |-> "link", path |-> img]

no_illustration == [kind |-> "sentence", text |-> "Aucune illustration disponible."]

\* line 108 without its else branch: an empty list gives an empty section
illustrations_no_fallback(images) == [i \in DOMAIN images |-> image_link(images[i])]

\* line 108: one link line an image, or the fixed sentence when there is none
illustrations(images) ==
    IF images # <<>>
    THEN [i \in DOMAIN images |-> image_link(images[i])]
    ELSE <<no_illustration>>

InitReport ==
    /\ annotated_dir \in SUBSET (({TopDir} \cup SubDirs) \X DirFiles)
    /\ walk_todo = <<>>
    /\ annotated_images = <<>>
    /\ report = EmptyDict
    /\ report_pc = "start"
    /\ RiskIdle
    /\ WeatherIdle
    /\ CameraIdle
    /\ OrchIdle

ReportFrame ==
    UNCHANGED riskVars /\ UNCHANGED weatherVars /\ UNCHANGED cameraVars /\ UNCHANGED orchVars

\* lines 74-78 and 81-82: the synthesis model answers, then os.walk starts at
\* the top directory and will go down its sub-directories in listing order
Synthesize ==
    /\ report_pc = "start"
    /\ \E order \in Listings(SubDirs) : walk_todo' = <<TopDir>> \o order
    /\ report_pc' = "walking"
    /\ UNCHANGED <<annotated_dir, annotated_images, report>>
    /\ ReportFrame

\* line 52 raises: the exception leaves generate_final_report, nothing is written
SynthesizeFails ==
    /\ report_pc = "start"
    /\ report_pc' = "raised"
    /\ UNCHANGED <<annotated_dir, walk_todo, annotated_images, report>>
    /\ ReportFrame

\* lines 82-86 for one directory yielded by os.walk: its .jpg files are
\* appended in the order the directory lists them
WalkDirectory ==
    /\ report_pc = "walking"
    /\ walk_todo # <<>>
    /\ \E listing \in Listings(files_in(annotated_dir, Head(walk_todo))) :
          annotated_images' =
              annotated_images \o
              [i \in DOMAIN SelectSeq(listing, ends_with_jpg) |->
                  path_join(Head(walk_todo), SelectSeq(listing, ends_with_jpg)[i])]
    /\ walk_todo' = Tail(walk_todo)
    /\ UNCHANGED <<annotated_dir, report, report_pc>>
    /\ ReportFrame

\* lines 88-125: the document is written.  Of its sections only Illustrations
\* depends on the walk; the others print fixed text and the arguments as given.
WriteReport ==
    /\ report_pc = "walking"
    /\ walk_todo = <<>>
    /\ report' = [illustrations |-> illustrations(annotated_images)]
    /\ report_pc' = "written"
    /\ UNCHANGED <<annotated_dir, walk_todo, annotated_images>>
    /\ ReportFrame

NextReport == Synthesize \/ SynthesizeFails \/ WalkDirectory \/ WriteReport

SpecReport == InitReport /\ [][NextReport]_vars

JpgFilesFound == {p \in annotated_dir : p[2] \in {"a.jpg", "b.JPG"}}

\* C12: when the walk of the annotated-images directory finds no .jpg file,
\* the Illustrations section of the written report holds the fixed "no
\* illustration available" sentence and no image link; when it finds at least
\* one, the section holds exactly one image link for each .jpg file found and
\* not the fixed sentence.
C12_IllustrationsSection ==
    report_pc = "written" =>
        IF JpgFilesFound = {}
        THEN report["illustrations"] = <<no_illustration>>
        ELSE /\ Len(report["illustrations"]) = Cardinality(JpgFilesFound)
             /\ \A p \in JpgFilesFound :
                   \E k \in 1..Len(report["illustrations"]) :
                       report["illustrations"][k] = [kind |-> "link", path |-> p]

C12_Witness ==
    /\ report_pc = "written"
    /\ Cardinality(JpgFilesFound) = 3
    /\ Cardinality(annotated_dir) = 5
    /\ Len(report["illustrations"]) = 3

C12_WitnessNone ==
    /\ report_pc = "written"
    /\ JpgFilesFound = {}
    /\ annotated_dir # {}
    /\ report["illustrations"] = <<no_illustration>>

====
